---- MODULE Spec2Model ----
(***************************************************************************)
(* Pipeline-health scoring of the sales-enablement server                   *)
(* (server/services/pipeline-health.ts) and the data layer it reads         *)
(* (server/storage.ts: IStorage / DatabaseStorage).                         *)
(*                                                                          *)
(* JavaScript numbers are modelled in fixed point: the real x is the        *)
(* integer x * SCALE, NaN is a value of its own.  JavaScript strings are    *)
(* sequences of one-character strings, so that includes(), trim(),          *)
(* toLowerCase() and the regular expressions are computed, not assumed.     *)
(* Time is counted in days.                                                 *)
(***************************************************************************)
EXTENDS Integers, Sequences, FiniteSets, TLC

VARIABLES
    db,              \* the stored records: account id -> notes, transcripts, nbas
    clock,           \* the wall clock (days)
    call,            \* the request being served: kind, accountId, accountIds
    pc,              \* position of the running calculatePipelineHealth / bulk loop
    idx,             \* bulk loop: 1-based position in accountIds
    results,         \* bulk loop: the results array
    accountId,       \* calculatePipelineHealth: its argument
    frameworkNotes,  \* calculatePipelineHealth: local (fetched notes)
    transcripts,     \* calculatePipelineHealth: local (fetched transcripts; sorted in place)
    nbas,            \* calculatePipelineHealth: local (fetched action items)
    frameworkCoverage, \* calculatePipelineHealth: local
    qualitySignal,   \* calculatePipelineHealth: local
    oracle,          \* the oracle call of this execution: calls made, argument, response, path taken
    error,           \* the exception in flight: "none", or what was thrown
    outcome,         \* settlement of the promise handed to the caller
    log              \* every data-layer operation and oracle call issued, in order

vars == <<db, clock, call, pc, idx, results, accountId, frameworkNotes, transcripts,
          nbas, frameworkCoverage, qualitySignal, oracle, error, outcome, log>>

-----------------------------------------------------------------------------
(* Bounds of the model *)

\* longest accountIds list handed to calculateBulkPipelineHealth
MaxBulk == 3
\* how many times the clock advances during a behaviour
MaxClock == 2

-----------------------------------------------------------------------------
(* JavaScript numbers *)

SCALE == 10 ^ 4

NaN == 0 - (10 ^ 9)

IsNaN(x) == x = NaN

\* a + b
AddF(a, b) == IF IsNaN(a) \/ IsNaN(b) THEN NaN ELSE a + b

\* a * b
MulF(a, b) == IF IsNaN(a) \/ IsNaN(b) THEN NaN ELSE (a * b) \div SCALE

\* a / b, b # 0
DivF(a, b) == IF IsNaN(a) \/ IsNaN(b) THEN NaN ELSE (a * SCALE) \div b

\* Math.max(a, b): NaN if either is NaN
MathMax(a, b) == IF IsNaN(a) \/ IsNaN(b) THEN NaN ELSE IF a >= b THEN a ELSE b

\* Math.min(a, b): NaN if either is NaN
MathMin(a, b) == IF IsNaN(a) \/ IsNaN(b) THEN NaN ELSE IF a <= b THEN a ELSE b

\* Math.round(x) of the fixed-point x, as a plain integer: floor(x + 0.5)
MathRound(x) == IF IsNaN(x) THEN NaN ELSE (x + (SCALE \div 2)) \div SCALE

\* sum of x^n / n! for n = k .. ExpTerms, where term = x^k / k! and x = d / 30
ExpTerms == 24

RECURSIVE ExpSeries(_, _, _)
ExpSeries(d, k, term) ==
    IF k > ExpTerms \/ term = 0 THEN 0
    ELSE term + ExpSeries(d, k + 1, (term * d) \div (30 * (k + 1)))

\* Math.exp(-d / 30) for a whole number of days d (d < 0: a date in the future)
MathExpNegOver30(d) ==
    IF d >= 0 THEN (SCALE * SCALE) \div ExpSeries(d, 0, SCALE)
    ELSE ExpSeries(0 - d, 0, SCALE)

-----------------------------------------------------------------------------
(* JavaScript values and strings *)

JsUndefined == [t |-> "undefined", s |-> <<>>, n |-> 0]
JsNull == [t |-> "null", s |-> <<>>, n |-> 0]
JsString(cs) == [t |-> "string", s |-> cs, n |-> 0]
JsNumber(x) == [t |-> "number", s |-> <<>>, n |-> x]
JsBool(b) == [t |-> "boolean", s |-> <<>>, n |-> IF b THEN 1 ELSE 0]
JsObject == [t |-> "object", s |-> <<>>, n |-> 0]

JsTrue == JsBool(TRUE)
JsFalse == JsBool(FALSE)

\* ToBoolean
Truthy(v) ==
    CASE v.t = "undefined" -> FALSE
      [] v.t = "null" -> FALSE
      [] v.t = "string" -> v.s # <<>>
      [] v.t = "number" -> ~IsNaN(v.n) /\ v.n # 0
      [] v.t = "boolean" -> v.n = 1
      [] OTHER -> TRUE

IsWhite(c) == c \in {" ", "\t", "\n"}

IsDigit(c) == c \in {"0", "1", "2", "3", "4", "5", "6", "7", "8", "9"}

DigitValue(c) ==
    CASE c = "0" -> 0 [] c = "1" -> 1 [] c = "2" -> 2 [] c = "3" -> 3 [] c = "4" -> 4
      [] c = "5" -> 5 [] c = "6" -> 6 [] c = "7" -> 7 [] c = "8" -> 8 [] c = "9" -> 9

\* String.prototype.includes
Includes(s, sub) ==
    \E i \in 1..(Len(s) - Len(sub) + 1) : SubSeq(s, i, i + Len(sub) - 1) = sub

\* String.prototype.trim() !== ''
TrimNonEmpty(s) == \E i \in 1..Len(s) : ~IsWhite(s[i])

\* String.prototype.trim
Trim(s) ==
    IF ~TrimNonEmpty(s) THEN <<>>
    ELSE LET keep == {i \in 1..Len(s) : ~IsWhite(s[i])}
             lo == CHOOSE i \in keep : \A j \in keep : i <= j
             hi == CHOOSE i \in keep : \A j \in keep : i >= j
         IN SubSeq(s, lo, hi)

\* String.prototype.slice(0, n)
Slice0(s, n) == IF Len(s) <= n THEN s ELSE SubSeq(s, 1, n)

LowerChar(c) ==
    CASE c = "A" -> "a" [] c = "B" -> "b" [] c = "C" -> "c" [] c = "D" -> "d"
      [] c = "E" -> "e" [] c = "F" -> "f" [] c = "G" -> "g" [] c = "H" -> "h"
      [] c = "I" -> "i" [] c = "J" -> "j" [] c = "K" -> "k" [] c = "L" -> "l"
      [] c = "M" -> "m" [] c = "N" -> "n" [] c = "O" -> "o" [] c = "P" -> "p"
      [] c = "Q" -> "q" [] c = "R" -> "r" [] c = "S" -> "s" [] c = "T" -> "t"
      [] c = "U" -> "u" [] c = "V" -> "v" [] c = "W" -> "w" [] c = "X" -> "x"
      [] c = "Y" -> "y" [] c = "Z" -> "z" [] OTHER -> c

\* String.prototype.toLowerCase
ToLowerCase(s) == [i \in 1..Len(s) |-> LowerChar(s[i])]

\* value of a run of digits read as a whole number
RECURSIVE DigitsValue(_)
DigitsValue(s) ==
    IF s = <<>> THEN 0
    ELSE 10 * DigitsValue(SubSeq(s, 1, Len(s) - 1)) + DigitValue(s[Len(s)])

RECURSIVE Pow10(_)
Pow10(k) == IF k = 0 THEN 1 ELSE 10 * Pow10(k - 1)

\* ToNumber of a string: '' and blanks are 0, digits with an optional fraction
\* are their value, anything else is NaN
StringToNumber(s) ==
    LET t == Trim(s)
        dots == {i \in 1..Len(t) : t[i] = "."}
    IN  IF t = <<>> THEN 0
        ELSE IF \E i \in 1..Len(t) : ~(IsDigit(t[i]) \/ t[i] = ".") THEN NaN
        ELSE IF Cardinality(dots) > 1 \/ Len(t) = Cardinality(dots) THEN NaN
        ELSE IF dots = {} THEN DigitsValue(t) * SCALE
        ELSE LET p == CHOOSE i \in dots : TRUE
                 whole == SubSeq(t, 1, p - 1)
                 frac == SubSeq(t, p + 1, Len(t))
             IN DigitsValue(whole) * SCALE
                  + (DigitsValue(frac) * SCALE) \div Pow10(Len(frac))

\* ToNumber
ToNumber(v) ==
    CASE v.t = "undefined" -> NaN
      [] v.t = "null" -> 0
      [] v.t = "string" -> StringToNumber(v.s)
      [] v.t = "number" -> v.n
      [] v.t = "boolean" -> v.n * SCALE
      [] OTHER -> NaN

-----------------------------------------------------------------------------
(* Static tables of pipeline-health.ts *)

\* Object.entries(FRAMEWORK_WEIGHTS) visits the keys in this order
FrameworkOrder == <<"MEDDPICC", "VEF", "BANT", "Qual-LTS", "Qual-LSS">>

\* frameworkEnum of the schema
frameworkEnum == {"Qual-LTS", "Qual-LSS", "VEF", "MEDDPICC", "BANT", "LicenseDemandPlan"}

\* nbaStatusEnum of the schema
nbaStatusEnum == {"Open", "In Progress", "Completed", "Overdue"}

FRAMEWORK_FIELDS(framework) ==
    CASE framework = "MEDDPICC" ->
           <<"Metrics", "Economic Buyer", "Decision Criteria", "Decision Process",
             "Paper Process", "Identified Pain", "Champion", "Competition">>
      [] framework = "VEF" ->
           <<"Customer's Pressures", "Customer's Objectives", "Customer's Challenges",
             "LinkedIn's Solutions", "LinkedIn's Experience", "LinkedIn's Unique Value">>
      [] framework = "BANT" -> <<"Budget", "Authority", "Need", "Timeline">>
      [] framework = "Qual-LTS" ->
           <<"Overall Impression of Opportunity", "First Impressions of POC/Lead",
             "General Company Info", "No of Employees", "Knowledge about LinkedIn">>
      [] framework = "Qual-LSS" ->
           <<"Date", "Account Name", "Attendees", "Sales Org Structure",
             "Ideal Buyer personas", "Total Addressable Market", "CRM",
             "Other Sales Systems & Tools", "Sales Process", "Average Deal Size",
             "Average Sales Cycle", "Sales Navigator Use Cases">>

\* every framework weighing the same
FRAMEWORK_WEIGHTS_EQUAL(framework) == SCALE \div 5

\* 0.4, 0.3, 0.15, 0.075, 0.075
FRAMEWORK_WEIGHTS(framework) ==
    CASE framework = "MEDDPICC" -> (4 * SCALE) \div 10
      [] framework = "VEF" -> (3 * SCALE) \div 10
      [] framework = "BANT" -> (15 * SCALE) \div 100
      [] framework = "Qual-LTS" -> (75 * SCALE) \div 1000
      [] framework = "Qual-LSS" -> (75 * SCALE) \div 1000

\* the two markers of an unknown field
UnknownMarker == <<"U", "n", "k", "n", "o", "w", "n", " ", "(", "n", "o", "t", " ", "m", "e", "n", "t", "i", "o", "n", "e", "d", ")">>
NotMentionedMarker == <<"N", "o", "t", " ", "m", "e", "n", "t", "i", "o", "n", "e", "d">>

-----------------------------------------------------------------------------
(* Pure functions of pipeline-health.ts *)

\* content[field]: undefined when the key is absent
Get(content, field) == IF field \in DOMAIN content THEN content[field] ELSE JsUndefined

\* Array.prototype.find(note => note.framework === framework): its index, 0 for undefined
FindFramework(notes, framework) ==
    IF \E i \in 1..Len(notes) : notes[i].framework = framework
    THEN CHOOSE i \in 1..Len(notes) :
           /\ notes[i].framework = framework
           /\ \A j \in 1..(i - 1) : notes[j].framework # framework
    ELSE 0

\* the condition without the test of trim()
CoverageFieldKnownUntrimmed(fieldValue) ==
    /\ Truthy(fieldValue)
    /\ fieldValue.t = "string"
    /\ ~Includes(fieldValue.s, UnknownMarker)
    /\ ~Includes(fieldValue.s, NotMentionedMarker)

\* the condition of the if at lines 122-126
CoverageFieldKnown(fieldValue) ==
    /\ Truthy(fieldValue)
    /\ fieldValue.t = "string"
    /\ TrimNonEmpty(fieldValue.s)
    /\ ~Includes(fieldValue.s, UnknownMarker)
    /\ ~Includes(fieldValue.s, NotMentionedMarker)

\* knownFields / fields.length of one note
CoverageScore(note) ==
    LET fields == FRAMEWORK_FIELDS(note.framework)
        knownFields == Cardinality({i \in 1..Len(fields) :
                                      CoverageFieldKnown(Get(note.content, fields[i]))})
    IN (knownFields * SCALE) \div Len(fields)

\* the loop of lines 112-134 from position k on: <<totalWeightedScore, totalWeight>>
RECURSIVE CoverageLoop(_, _, _, _)
CoverageLoop(notes, k, totalWeightedScore, totalWeight) ==
    IF k > Len(FrameworkOrder) THEN <<totalWeightedScore, totalWeight>>
    ELSE LET framework == FrameworkOrder[k]
             weight == FRAMEWORK_WEIGHTS(framework)
             i == FindFramework(notes, framework)
         IN IF i = 0 THEN CoverageLoop(notes, k + 1, totalWeightedScore, totalWeight)
            ELSE CoverageLoop(notes, k + 1,
                              AddF(totalWeightedScore, MulF(CoverageScore(notes[i]), weight)),
                              AddF(totalWeight, weight))

\* the weighted sum not divided by the weights used
calculateFrameworkCoverageUnnormalised(notes) ==
    IF Len(notes) = 0 THEN 0
    ELSE CoverageLoop(notes, 1, 0, 0)[1]

\* line 136 without its test of totalWeight: 0 / 0 when no weighted framework has
\* a note
calculateFrameworkCoverageNoGuard(notes) ==
    IF Len(notes) = 0 THEN 0
    ELSE LET t == CoverageLoop(notes, 1, 0, 0)
         IN IF t[2] > 0 THEN DivF(t[1], t[2]) ELSE NaN

calculateFrameworkCoverage(notes) ==
    IF Len(notes) = 0 THEN 0
    ELSE LET t == CoverageLoop(notes, 1, 0, 0)
         IN IF t[2] > 0 THEN DivF(t[1], t[2]) ELSE 0

\* fieldValue && typeof fieldValue === 'string' && ... : the value of the && chain
isFieldComplete(fieldValue) ==
    IF ~Truthy(fieldValue) THEN fieldValue
    ELSE JsBool(/\ fieldValue.t = "string"
                /\ TrimNonEmpty(fieldValue.s)
                /\ ~Includes(fieldValue.s, UnknownMarker)
                /\ ~Includes(fieldValue.s, NotMentionedMarker))

NoReadinessFlags ==
    [economicBuyer |-> JsFalse, champion |-> JsFalse, painExplicit |-> JsFalse,
     decisionProcess |-> JsFalse, decisionCriteria |-> JsFalse, paperProcess |-> JsFalse]

\* the flags of the buyer and of the champion read each other's field
extractReadinessFlagsSwapped(notes) ==
    LET i == FindFramework(notes, "MEDDPICC")
    IN IF i = 0 THEN NoReadinessFlags
       ELSE LET content == notes[i].content
            IN [economicBuyer |-> isFieldComplete(Get(content, "Champion")),
                champion |-> isFieldComplete(Get(content, "Economic Buyer")),
                painExplicit |-> isFieldComplete(Get(content, "Identified Pain")),
                decisionProcess |-> isFieldComplete(Get(content, "Decision Process")),
                decisionCriteria |-> isFieldComplete(Get(content, "Decision Criteria")),
                paperProcess |-> isFieldComplete(Get(content, "Paper Process"))]

extractReadinessFlags(notes) ==
    LET i == FindFramework(notes, "MEDDPICC")
    IN IF i = 0 THEN NoReadinessFlags
       ELSE LET content == notes[i].content
            IN [economicBuyer |-> isFieldComplete(Get(content, "Economic Buyer")),
                champion |-> isFieldComplete(Get(content, "Champion")),
                painExplicit |-> isFieldComplete(Get(content, "Identified Pain")),
                decisionProcess |-> isFieldComplete(Get(content, "Decision Process")),
                decisionCriteria |-> isFieldComplete(Get(content, "Decision Criteria")),
                paperProcess |-> isFieldComplete(Get(content, "Paper Process"))]

\* the text has the word at position i
HasAt(s, i, word) == i >= 1 /\ i + Len(word) - 1 <= Len(s) /\ SubSeq(s, i, i + Len(word) - 1) = word

IncludesAny(s, words) == \E w \in words : Includes(s, w)

UnitWords ==
    { <<"m", "i", "l", "l", "i", "o", "n">>, <<"t", "h", "o", "u", "s", "a", "n", "d">>,
      <<"k">>, <<"m">> }

RoleWords ==
    { <<"c", "e", "o">>, <<"c", "f", "o">>, <<"v", "p">>,
      <<"d", "i", "r", "e", "c", "t", "o", "r">>, <<"m", "a", "n", "a", "g", "e", "r">>,
      <<"h", "e", "a", "d", " ", "o", "f">> }

TimelineWords ==
    { <<"n", "e", "x", "t", " ", "w", "e", "e", "k">>,
      <<"n", "e", "x", "t", " ", "m", "o", "n", "t", "h">>,
      <<"j", "a", "n", "u", "a", "r", "y">>, <<"f", "e", "b", "r", "u", "a", "r", "y">>,
      <<"m", "a", "r", "c", "h">>, <<"a", "p", "r", "i", "l">>, <<"m", "a", "y">>,
      <<"j", "u", "n", "e">>, <<"j", "u", "l", "y">>, <<"a", "u", "g", "u", "s", "t">>,
      <<"s", "e", "p", "t", "e", "m", "b", "e", "r">>,
      <<"o", "c", "t", "o", "b", "e", "r">>, <<"n", "o", "v", "e", "m", "b", "e", "r">>,
      <<"d", "e", "c", "e", "m", "b", "e", "r">> }

ActionWords ==
    { <<"w", "i", "l", "l">>, <<"p", "l", "a", "n", " ", "t", "o">>,
      <<"n", "e", "e", "d", " ", "t", "o">>, <<"g", "o", "i", "n", "g", " ", "t", "o">>,
      <<"s", "c", "h", "e", "d", "u", "l", "e">>,
      <<"f", "o", "l", "l", "o", "w", " ", "u", "p">> }

\* a test that knows percentages only
MetricTestPercentOnly(content) ==
    \E i \in 1..(Len(content) - 1) : IsDigit(content[i]) /\ content[i + 1] = "%"

\* /\d+[%$]|\$\d+|\d+\s*(million|thousand|k|m)|\d+%/.test(content)
MetricTest(content) ==
    \/ \E i \in 1..(Len(content) - 1) : IsDigit(content[i]) /\ content[i + 1] \in {"%", "$"}
    \/ \E i \in 1..(Len(content) - 1) : content[i] = "$" /\ IsDigit(content[i + 1])
    \/ \E i \in 1..Len(content) : \E j \in (i + 1)..Len(content) :
          /\ IsDigit(content[i])
          /\ \A k \in (i + 1)..(j - 1) : IsWhite(content[k])
          /\ \E w \in UnitWords : HasAt(content, j, w)

\* /(ceo|cfo|vp|director|manager|head of)/.test(content)
RoleTest(content) == IncludesAny(content, RoleWords)

\* /(next week|next month|q[1-4]|january|...|december)/.test(content)
TimelineTest(content) ==
    \/ IncludesAny(content, TimelineWords)
    \/ \E i \in 1..(Len(content) - 1) : content[i] = "q" /\ content[i + 1] \in {"1", "2", "3", "4"}

\* /(will|plan to|need to|going to|schedule|follow up)/.test(content)
ActionTest(content) == IncludesAny(content, ActionWords)

Quarter == SCALE \div 4

calculateFallbackQuality(ts, notes) ==
    IF Len(ts) = 0 THEN 0
    ELSE LET content == ToLowerCase(ts[1].content)
         IN AddF(AddF(AddF(IF MetricTest(content) THEN Quarter ELSE 0,
                           IF RoleTest(content) THEN Quarter ELSE 0),
                      IF TimelineTest(content) THEN Quarter ELSE 0),
                 IF ActionTest(content) THEN Quarter ELSE 0)

\* Math.max(...transcripts.map(t => new Date(t.createdAt).getTime()))
RECURSIVE MaxCreatedAt(_)
MaxCreatedAt(ts) ==
    IF Len(ts) = 1 THEN ts[1].createdAt
    ELSE LET m == MaxCreatedAt(Tail(ts))
         IN IF ts[1].createdAt >= m THEN ts[1].createdAt ELSE m

\* the decay taken from the last transcript of the list
calculateRecencyOfLast(ts, now) ==
    IF Len(ts) = 0 THEN 0
    ELSE MathExpNegOver30(now - ts[Len(ts)].createdAt)

calculateRecency(ts, now) ==
    IF Len(ts) = 0 THEN 0
    ELSE LET mostRecentDate == MaxCreatedAt(ts)
             daysSince == now - mostRecentDate
         IN MathExpNegOver30(daysSince)

\* thirtyDaysAgo.setDate(thirtyDaysAgo.getDate() - 30)
NBA_WINDOW_DAYS == 30

\* the share of completed items of all time
calculateNBAProgressAllTime(items, now) ==
    IF Len(items) = 0 THEN 0
    ELSE (Len(SelectSeq(items, LAMBDA nba : nba.status = "Completed")) * SCALE)
           \div Len(items)

calculateNBAProgress(items, now) ==
    IF Len(items) = 0 THEN 0
    ELSE LET thirtyDaysAgo == now - NBA_WINDOW_DAYS
             recentNBAs == SelectSeq(items, LAMBDA nba : nba.createdAt >= thirtyDaysAgo)
             completedNBAs == Len(SelectSeq(recentNBAs, LAMBDA nba : nba.status = "Completed"))
         IN IF Len(recentNBAs) = 0 THEN 0
            ELSE (completedNBAs * SCALE) \div Len(recentNBAs)

\* a sort that leaves the array as it was
SortByDateDescUnsorted(ts) == ts

\* transcripts.sort((a, b) => time(b) - time(a)): a stable sort, latest first
RECURSIVE InsertByDate(_, _)
InsertByDate(t, sorted) ==
    IF sorted = <<>> THEN <<t>>
    ELSE IF sorted[1].createdAt >= t.createdAt
         THEN <<sorted[1]>> \o InsertByDate(t, Tail(sorted))
         ELSE <<t>> \o sorted

RECURSIVE SortByDateDesc(_)
SortByDateDesc(ts) ==
    IF ts = <<>> THEN <<>>
    ELSE InsertByDate(ts[Len(ts)], SortByDateDesc(SubSeq(ts, 1, Len(ts) - 1)))

\* Math.round((0.5 * c + 0.3 * q + 0.1 * r + 0.1 * n) * 100)
WeightedSum(c, q, r, n) ==
    AddF(AddF(AddF(MulF((5 * SCALE) \div 10, c), MulF((3 * SCALE) \div 10, q)),
              MulF(SCALE \div 10, r)),
         MulF(SCALE \div 10, n))

\* the weights of coverage and quality exchanged
ScoreOfSwapped(c, q, r, n) ==
    LET sum == WeightedSum(q, c, r, n)
    IN MathRound(IF IsNaN(sum) THEN NaN ELSE sum * 100)

ScoreOf(c, q, r, n) ==
    LET sum == WeightedSum(c, q, r, n)
    IN MathRound(IF IsNaN(sum) THEN NaN ELSE sum * 100)

\* lines 78-81; every comparison with NaN is false
LabelOf(score) ==
    IF ~IsNaN(score) /\ score >= 80 THEN "Healthy"
    ELSE IF ~IsNaN(score) /\ score >= 50 THEN "Watchlist"
    ELSE "At Risk"

-----------------------------------------------------------------------------
(* The oracle: openai.chat.completions.create and what the code reads of it *)

\* the call rejected (API error, no connection, SDK timeout), or it resolved with
\* message content of one of these forms:
\*   noContent  content is null          empty      content is ''
\*   malformed  text JSON.parse rejects  jsonNull   the text 'null'
\*   object     a JSON object; qualityScore is undefined when the key is missing
OracleReply(form, qualityScore, flagsAllTrue) ==
    [kind |-> "reply", form |-> form, qualityScore |-> qualityScore,
     flagsAllTrue |-> flagsAllTrue]

OracleFailure(kind) ==
    [kind |-> kind, form |-> "none", qualityScore |-> JsUndefined, flagsAllTrue |-> FALSE]

NoResponse == OracleFailure("none")

\* '{"qualityScore": 0}'
DefaultReply == OracleReply("object", JsNumber(0), FALSE)

\* response.choices[0].message.content || '{"qualityScore": 0}'
ContentOrDefault(resp) == IF resp.form \in {"noContent", "empty"} THEN DefaultReply ELSE resp

\* JSON.parse(text) followed by result.qualityScore: throws a SyntaxError on
\* malformed text and a TypeError on null
ParseThrows(text) == text.form \in {"malformed", "jsonNull"}

\* Math.max(0, Math.min(1, result.qualityScore || 0))
ClampQuality(qualityScore) ==
    MathMax(0, MathMin(SCALE, ToNumber(IF Truthy(qualityScore) THEN qualityScore
                                       ELSE JsNumber(0))))

\* a catch that gives up with 0 instead of scoring by rule
QualityAfterOracleNoFallback(resp, ts, notes) ==
    IF resp.kind # "reply" \/ ParseThrows(ContentOrDefault(resp))
    THEN [path |-> "fallback", value |-> 0]
    ELSE [path |-> "oracle", value |-> ClampQuality(ContentOrDefault(resp).qualityScore)]

\* lines 187-193: the value calculateQualitySignal resolves with once the oracle
\* call has settled with resp, and the path that produced it
QualityAfterOracle(resp, ts, notes) ==
    IF resp.kind # "reply" \/ ParseThrows(ContentOrDefault(resp))
    THEN [path |-> "fallback", value |-> calculateFallbackQuality(ts, notes)]
    ELSE [path |-> "oracle", value |-> ClampQuality(ContentOrDefault(resp).qualityScore)]

\* recentTranscript.content.slice(0, 2000)
TRANSCRIPT_EXCERPT == 2000

-----------------------------------------------------------------------------
(* Results *)

\* lines 86-98
PipelineHealthScore(id, c, q, r, n, flags, now) ==
    [accountId |-> id,
     score |-> ScoreOf(c, q, r, n),
     label |-> LabelOf(ScoreOf(c, q, r, n)),
     breakdown |-> [frameworkCoverage |-> c, qualitySignal |-> q, recency |-> r,
                    nbaProgress |-> n],
     readinessFlags |-> flags,
     lastUpdatedAt |-> now]

\* a default whose timestamp is not taken when it is built
DegradedDefaultEpoch(id, now) ==
    [accountId |-> id,
     score |-> 0,
     label |-> "At Risk",
     breakdown |-> [frameworkCoverage |-> 0, qualitySignal |-> 0, recency |-> 0,
                    nbaProgress |-> 0],
     readinessFlags |-> NoReadinessFlags,
     lastUpdatedAt |-> 0]

\* lines 295-314
DegradedDefault(id, now) ==
    [accountId |-> id,
     score |-> 0,
     label |-> "At Risk",
     breakdown |-> [frameworkCoverage |-> 0, qualitySignal |-> 0, recency |-> 0,
                    nbaProgress |-> 0],
     readinessFlags |-> NoReadinessFlags,
     lastUpdatedAt |-> now]

\* a catch that logs the error and pushes nothing
BulkOnErrorSkip(res, id, now) == res

\* lines 292-315: the catch of the bulk loop
BulkOnError(res, id, now) == Append(res, DegradedDefault(id, now))

\* a catch that answers with a zero score instead of throwing
CatchHandlerSwallow(err) ==
    [status |-> "resolved", value |-> DegradedDefault("", 0)]

\* lines 100-103: the catch of calculatePipelineHealth settles its promise
CatchHandler(err) ==
    [status |-> "rejected", value |-> <<"Failed to calculate pipeline health: ", err>>]

-----------------------------------------------------------------------------
(* GET /api/dashboard/stats (server/routes.ts, lines 387-423) *)

DigitChars == <<"0", "1", "2", "3", "4", "5", "6", "7", "8", "9">>

\* the decimal digits of the natural number n
RECURSIVE Digits(_)
Digits(n) ==
    IF n < 10 THEN <<DigitChars[n + 1]>>
    ELSE Append(Digits(n \div 10), DigitChars[(n % 10) + 1])

\* `${n}` for an integer or NaN
NumberToString(n) ==
    IF IsNaN(n) THEN <<"N", "a", "N">>
    ELSE IF n < 0 THEN <<"-">> \o Digits(0 - n)
    ELSE Digits(n)

\* (x).toFixed(1) for x = tenths / 10, tenths a natural number
ToFixed1(tenths) == Digits(tenths \div 10) \o <<".">> \o Digits(tenths % 10)

\* healthScores.reduce((sum, score) => sum + score.score, 0), from position k on
RECURSIVE TotalScore(_, _, _)
TotalScore(healthScores, k, sum) ==
    IF k > Len(healthScores) THEN sum
    ELSE TotalScore(healthScores, k + 1, AddF(sum, healthScores[k].score))

\* an average over the accounts that have a score above 0 only
PipelineHealthAvgOfScored(healthScores) ==
    LET scored == SelectSeq(healthScores, LAMBDA h : h.score > 0)
    IN IF Len(scored) = 0 THEN NaN
       ELSE MathRound(DivF(TotalScore(scored, 1, 0), Len(scored)))

\* lines 404-408: Math.round(totalScore / healthScores.length), the list not empty
PipelineHealthAvg(healthScores) ==
    MathRound(DivF(TotalScore(healthScores, 1, 0), Len(healthScores)))

\* lines 411-416
DashboardStatsOf(nAccounts, nCompleted, pipelineHealthAvg) ==
    [activeAccounts |-> nAccounts,
     completedNBAs |-> nCompleted,
     pipelineValue |-> <<"$">> \o ToFixed1(nAccounts) \o <<"M">>,
     pipelineHealth |-> NumberToString(pipelineHealthAvg) \o <<"%">>]

\* line 421
DashboardFailure ==
    [status |-> "rejected", value |-> [code |-> 500, message |-> "Failed to fetch dashboard stats"]]

-----------------------------------------------------------------------------
(* The data layer: server/storage.ts *)

\* the methods IStorage declares and DatabaseStorage defines
StorageMethods ==
    {"getUser", "getUserByUsername", "createUser", "getAccount", "getAccountsByUser",
     "createAccount", "updateAccount", "getCompanyResearch", "createCompanyResearch",
     "getTranscript", "getTranscriptsByAccount", "createTranscript", "getFrameworkNotes",
     "getFrameworkNotesByAccount", "createFrameworkNotes", "updateFrameworkNotes",
     "getNextBestActions", "createNextBestAction", "updateNextBestAction",
     "deleteNextBestAction", "getArtifacts", "createArtifact", "deleteArtifact"}

\* .orderBy(desc(createdAt))
\* a query without its orderBy clause: the rows come in the order they are stored
OrderAsStored(rows) == rows

OrderByCreatedAtDesc(rows) == SortByDateDesc(rows)

getFrameworkNotesByAccount(id) == OrderByCreatedAtDesc(db[id].notes)

getTranscriptsByAccount(id) == OrderByCreatedAtDesc(db[id].transcripts)

-----------------------------------------------------------------------------
(* Records the model runs on *)

AccountIds == {"acctA", "acctB"}

KnownValue == JsString(<<"J", "a", "n", "e", " ", "D", "o", "e">>)

\* a note whose first k fields are known and whose other fields hold fill
\* (fill undefined: the keys are absent)
NoteContent(framework, k, fill) ==
    LET fields == FRAMEWORK_FIELDS(framework)
        first == {fields[i] : i \in 1..k}
        rest == {fields[i] : i \in (k + 1)..Len(fields)}
    IN [f \in first \cup (IF fill.t = "undefined" THEN {} ELSE rest) |->
          IF f \in first THEN KnownValue ELSE fill]

Note(framework, k, fill, createdAt) ==
    [framework |-> framework, content |-> NoteContent(framework, k, fill),
     createdAt |-> createdAt]

FullNote(framework, createdAt) ==
    Note(framework, Len(FRAMEWORK_FIELDS(framework)), JsUndefined, createdAt)

PlanNote(createdAt) ==
    [framework |-> "LicenseDemandPlan", content |-> [f \in {"Plan"} |-> KnownValue],
     createdAt |-> createdAt]

SampleNotes ==
    { <<>>,
      <<FullNote("MEDDPICC", 0 - 1)>>,
      <<Note("MEDDPICC", 0, JsString(UnknownMarker), 0 - 1)>>,
      <<Note("MEDDPICC", 3, JsNull, 0 - 1), Note("BANT", 2, JsString(<<>>), 0 - 5)>>,
      <<FullNote("MEDDPICC", 0 - 1), FullNote("VEF", 0 - 1), FullNote("BANT", 0 - 1),
        FullNote("Qual-LTS", 0 - 2), FullNote("Qual-LSS", 0 - 2)>>,
      <<PlanNote(0)>>,
      <<Note("MEDDPICC", 2, JsString(<<"s", "e", "e", ":", " ", "N", "o", "t", " ", "m", "e", "n", "t", "i", "o", "n", "e", "d", " ", "y", "e", "t">>), 0),
        FullNote("MEDDPICC", 0 - 10)>>,
      <<FullNote("VEF", 0 - 3), Note("Qual-LSS", 5, JsNumber(42 * SCALE), 0 - 3)>>,
      <<Note("MEDDPICC", 0, JsString(<<>>), 0 - 1)>> }

TextAll == <<"$", "5", " ", "V", "P", " ", "Q", "3", " ", "w", "i", "l", "l">>
TextNone == <<"h", "e", "l", "l", "o">>
TextRole == <<"C", "E", "O", " ", "s", "a", "i", "d", " ", "h", "i">>
TextTwo == <<"1", "0", "%", " ", "b", "y", " ", "M", "a", "y">>
\* "$50k VP of Sales Q3 will schedule"
TextDeal ==
    <<"$", "5", "0", "k", " ", "V", "P", " ", "o", "f", " ", "S", "a", "l", "e", "s", " ",
      "Q", "3", " ", "w", "i", "l", "l", " ", "s", "c", "h", "e", "d", "u", "l", "e">>
\* "VP: 5 million by June"
TextThree ==
    <<"V", "P", ":", " ", "5", " ", "m", "i", "l", "l", "i", "o", "n", " ", "b", "y", " ",
      "J", "u", "n", "e">>

Transcript(content, createdAt) == [content |-> content, createdAt |-> createdAt]

\* the last list is not in the data layer's order: calculateQualitySignal takes any array
SampleTranscripts ==
    { <<>>,
      <<Transcript(TextAll, 0)>>,
      <<Transcript(TextNone, 0 - 30)>>,
      <<Transcript(TextRole, 30)>>,
      <<Transcript(TextAll, 0 - 1), Transcript(TextNone, 0 - 45)>>,
      <<Transcript(TextNone, 0 - 45), Transcript(TextTwo, 0 - 1)>>,
      <<Transcript(TextDeal, 0 - 2)>>,
      <<Transcript(TextThree, 0 - 3), Transcript(TextAll, 0 - 60)>>,
      <<Transcript(TextRole, 0 - 5), Transcript(TextTwo, 0 - 5), Transcript(TextAll, 0 - 9)>> }

NBA(status, createdAt) == [status |-> status, createdAt |-> createdAt]

SampleNBAs ==
    { <<>>,
      <<NBA("Completed", 0 - 40)>>,
      <<NBA("Completed", 0 - 1), NBA("Open", 0 - 2)>>,
      <<NBA("Completed", 0 - 30), NBA("Overdue", 0 - 31), NBA("In Progress", 0)>>,
      <<NBA("Completed", 0)>> }

SampleQualityScores ==
    { JsUndefined, JsNull, JsNumber(0), JsNumber((3 * SCALE) \div 4), JsNumber(SCALE),
      JsNumber((17 * SCALE) \div 10), JsNumber(0 - (SCALE \div 2)),
      JsString(<<"h", "i", "g", "h">>), JsString(<<"0", ".", "9">>), JsTrue, JsObject }

OracleResponses ==
    { OracleFailure("throw"), OracleFailure("timeout"),
      OracleReply("noContent", JsUndefined, FALSE), OracleReply("empty", JsUndefined, FALSE),
      OracleReply("malformed", JsUndefined, FALSE), OracleReply("jsonNull", JsUndefined, FALSE) }
    \cup { OracleReply("object", q, FALSE) : q \in SampleQualityScores }
    \cup { OracleReply("object", JsNumber((3 * SCALE) \div 4), TRUE) }

EmptyAccount == [notes |-> <<>>, transcripts |-> <<>>, nbas |-> <<>>]

BusyAccount ==
    [notes |-> <<FullNote("MEDDPICC", 0 - 10),
                 Note("MEDDPICC", 2, JsString(UnknownMarker), 0)>>,
     transcripts |-> <<Transcript(TextNone, 0 - 45), Transcript(TextAll, 0 - 1)>>,
     nbas |-> <<NBA("Completed", 0 - 1), NBA("Open", 0 - 2)>>]

SampleAccounts == {EmptyAccount, BusyAccount}

\* the accounts getAccountsByUser may return for a user: distinct rows, in the
\* order of their updatedAt
UserAccountLists ==
    {<<>>} \cup {<<a>> : a \in AccountIds}
           \cup {l \in {<<a, b>> : a \in AccountIds, b \in AccountIds} : l[1] # l[2]}

\* how many completed action items the user may own (line 390)
CompletedCounts == {0, 2}

\* the reads of lines 389-394, and "none" for a request on which all three succeed
DashboardReads == {"none", "getAccountsByUser", "getNextBestActions", "getArtifacts"}

\* the lists of at most n account ids
RECURSIVE IdLists(_)
IdLists(n) ==
    IF n = 0 THEN {<<>>}
    ELSE IdLists(n - 1) \cup
         {Append(l, a) : l \in {m \in IdLists(n - 1) : Len(m) = n - 1}, a \in AccountIds}

-----------------------------------------------------------------------------
(* State *)

NoCall == [kind |-> "none", accountIds |-> <<>>]
NoOutcome == [status |-> "none", value |-> <<>>]
Pending == [status |-> "pending", value |-> <<>>]
NoOracle == [calls |-> 0, excerpt |-> <<>>, response |-> NoResponse, path |-> "none"]

LogEntry(op, id, result) == [op |-> op, accountId |-> id, result |-> result]

\* the entry of the operation in flight gets its result
SettleLast(l, result) == [l EXCEPT ![Len(l)].result = result]

Locals0 ==
    /\ frameworkNotes = <<>>
    /\ transcripts = <<>>
    /\ nbas = <<>>
    /\ frameworkCoverage = 0
    /\ qualitySignal = 0
    /\ oracle = NoOracle
    /\ error = "none"

\* the server is up and no request is being served
Init ==
    /\ db \in [AccountIds -> SampleAccounts]
    /\ clock = 0
    /\ call = NoCall
    /\ pc = "idle"
    /\ idx = 0
    /\ results = <<>>
    /\ accountId = ""
    /\ Locals0
    /\ outcome = NoOutcome
    /\ log = <<>>

\* calculatePipelineHealth runs up to its first await: the notes are requested
EnterCalculatePipelineHealth(id) ==
    /\ accountId' = id
    /\ pc' = "getFrameworkNotes"
    /\ frameworkNotes' = <<>>
    /\ transcripts' = <<>>
    /\ nbas' = <<>>
    /\ frameworkCoverage' = 0
    /\ qualitySignal' = 0
    /\ oracle' = NoOracle
    /\ error' = "none"
    /\ log' = Append(log, LogEntry("getFrameworkNotesByAccount", id, "pending"))

\* GET /api/pipeline-health: calculatePipelineHealth(accountId)
CalculatePipelineHealth(id) ==
    /\ pc = "idle"
    /\ call' = [kind |-> "single", accountIds |-> <<id>>]
    /\ outcome' = Pending
    /\ EnterCalculatePipelineHealth(id)
    /\ UNCHANGED <<db, clock, idx, results>>

\* the loop without the await of line 290: the next account's first read is
\* requested while the current account's computation is still running
BulkLoopAhead(ids, i, res) ==
    /\ idx' = i
    /\ results' = res
    /\ IF i <= Len(ids)
       THEN /\ accountId' = ids[i]
            /\ pc' = "getFrameworkNotes"
            /\ frameworkNotes' = <<>>
            /\ transcripts' = <<>>
            /\ nbas' = <<>>
            /\ frameworkCoverage' = 0
            /\ qualitySignal' = 0
            /\ oracle' = NoOracle
            /\ error' = "none"
            /\ log' = IF i < Len(ids)
                      THEN log \o <<LogEntry("getFrameworkNotesByAccount", ids[i + 1], "pending"),
                                    LogEntry("getFrameworkNotesByAccount", ids[i], "pending")>>
                      ELSE Append(log, LogEntry("getFrameworkNotesByAccount", ids[i], "pending"))
            /\ outcome' = Pending
       ELSE /\ pc' = "done"
            /\ outcome' = [status |-> "resolved", value |-> res]
            /\ UNCHANGED <<accountId, frameworkNotes, transcripts, nbas, frameworkCoverage,
                           qualitySignal, oracle, error, log>>

\* the head of the for loop of calculateBulkPipelineHealth with i the position
\* reached and res the results so far: the next account's computation starts, or
\* the results are returned
BulkLoop(ids, i, res) ==
    /\ idx' = i
    /\ results' = res
    /\ IF i <= Len(ids)
       THEN /\ EnterCalculatePipelineHealth(ids[i])
            /\ outcome' = Pending
       ELSE /\ pc' = "done"
            /\ outcome' = [status |-> "resolved", value |-> res]
            /\ UNCHANGED <<accountId, frameworkNotes, transcripts, nbas, frameworkCoverage,
                           qualitySignal, oracle, error, log>>

\* GET /api/pipeline-health/bulk and the dashboard: calculateBulkPipelineHealth(accountIds)
CalculateBulkPipelineHealth(ids) ==
    /\ pc = "idle"
    /\ call' = [kind |-> "bulk", accountIds |-> ids]
    /\ BulkLoop(ids, 1, <<>>)
    /\ UNCHANGED <<db, clock>>

\* an exception err reaches the catch of calculatePipelineHealth (lines 100-103)
Caught(err) ==
    /\ error' = err
    /\ pc' = CatchHandler(err).status
    /\ outcome' = IF call.kind = "single" THEN CatchHandler(err) ELSE outcome

\* line 49 resumes with the notes; line 52 requests the transcripts
GetFrameworkNotesResolves ==
    /\ pc = "getFrameworkNotes"
    /\ frameworkNotes' = getFrameworkNotesByAccount(accountId)
    /\ pc' = "getTranscripts"
    /\ log' = Append(SettleLast(log, "ok"),
                     LogEntry("getTranscriptsByAccount", accountId, "pending"))
    /\ UNCHANGED <<db, clock, call, idx, results, accountId, transcripts, nbas,
                   frameworkCoverage, qualitySignal, oracle, error, outcome>>

\* a failed read of the notes that the function survives: it goes on to line 52
GetFrameworkNotesRejectsGoesOn ==
    /\ pc = "getFrameworkNotes"
    /\ pc' = "getTranscripts"
    /\ log' = Append(SettleLast(log, "io"),
                     LogEntry("getTranscriptsByAccount", accountId, "pending"))
    /\ UNCHANGED <<db, clock, call, idx, results, accountId, frameworkNotes, transcripts,
                   nbas, frameworkCoverage, qualitySignal, oracle, error, outcome>>

\* line 49: the read fails
GetFrameworkNotesRejects ==
    /\ pc = "getFrameworkNotes"
    /\ Caught("io")
    /\ log' = SettleLast(log, "io")
    /\ UNCHANGED <<db, clock, call, idx, results, accountId, frameworkNotes, transcripts,
                   nbas, frameworkCoverage, qualitySignal, oracle>>

\* the array sorted by the computation is the stored one
GetTranscriptsResolvesStoring ==
    /\ pc = "getTranscripts"
    /\ transcripts' = getTranscriptsByAccount(accountId)
    /\ db' = [db EXCEPT ![accountId].transcripts = transcripts']
    /\ Caught("storage.getNBAsByAccount is not a function")
    /\ log' = Append(SettleLast(log, "ok"),
                     LogEntry("getNBAsByAccount", accountId, "not a function"))
    /\ UNCHANGED <<clock, call, idx, results, accountId, frameworkNotes, nbas,
                   frameworkCoverage, qualitySignal, oracle>>

\* line 52 resumes with the transcripts; line 55 calls storage.getNBAsByAccount,
\* which the storage object does not have: the call throws a TypeError, caught at
\* line 100
GetTranscriptsResolves ==
    /\ pc = "getTranscripts"
    /\ transcripts' = getTranscriptsByAccount(accountId)
    /\ "getNBAsByAccount" \notin StorageMethods
    /\ Caught("storage.getNBAsByAccount is not a function")
    /\ log' = Append(SettleLast(log, "ok"),
                     LogEntry("getNBAsByAccount", accountId, "not a function"))
    /\ UNCHANGED <<db, clock, call, idx, results, accountId, frameworkNotes, nbas,
                   frameworkCoverage, qualitySignal, oracle>>

\* line 52: the read fails
GetTranscriptsRejects ==
    /\ pc = "getTranscripts"
    /\ Caught("io")
    /\ log' = SettleLast(log, "io")
    /\ UNCHANGED <<db, clock, call, idx, results, accountId, frameworkNotes, transcripts,
                   nbas, frameworkCoverage, qualitySignal, oracle>>

\* lines 292-315: the bulk loop catches the rejection, substitutes the default
\* and goes on with the next account
BulkCatch ==
    /\ call.kind \in {"bulk", "dashboard"}
    /\ pc = "rejected"
    /\ BulkLoop(call.accountIds, idx + 1, BulkOnError(results, accountId, clock))
    /\ UNCHANGED <<db, clock, call>>

\* GET /api/dashboard/stats, lines 389-403 and 411-421: the user's accounts are ids
\* and failing is the read of lines 389-394 that fails, if any. A failed read is
\* answered with status 500; without accounts the stats are answered with
\* pipelineHealthAvg 0; otherwise calculateBulkPipelineHealth starts.
DashboardStats(ids, failing, nCompleted) ==
    /\ pc = "idle"
    /\ call' = [kind |-> "dashboard", accountIds |-> ids]
    /\ IF failing # "none"
       THEN /\ pc' = "answered"
            /\ outcome' = DashboardFailure
            /\ UNCHANGED <<idx, results, accountId, frameworkNotes, transcripts, nbas,
                           frameworkCoverage, qualitySignal, oracle, error, log>>
       ELSE IF Len(ids) = 0
       THEN /\ pc' = "answered"
            /\ outcome' = [status |-> "resolved", value |-> DashboardStatsOf(0, nCompleted, 0)]
            /\ UNCHANGED <<idx, results, accountId, frameworkNotes, transcripts, nbas,
                           frameworkCoverage, qualitySignal, oracle, error, log>>
       ELSE BulkLoop(ids, 1, <<>>)
    /\ UNCHANGED <<db, clock>>

\* lines 403-418: the bulk computation has returned its list; the handler averages
\* the scores and answers. nCompleted is nbas.length of line 390.
DashboardAnswer(nCompleted) ==
    /\ call.kind = "dashboard"
    /\ pc = "done"
    /\ outcome.status = "resolved"
    /\ outcome' = [status |-> "resolved",
                   value |-> DashboardStatsOf(Len(call.accountIds), nCompleted,
                                              PipelineHealthAvg(outcome.value))]
    /\ pc' = "answered"
    /\ UNCHANGED <<db, clock, call, idx, results, accountId, frameworkNotes, transcripts,
                   nbas, frameworkCoverage, qualitySignal, oracle, error, log>>

\* time passes while an operation is awaited
Tick ==
    /\ pc \in {"getFrameworkNotes", "getTranscripts", "awaitOracle", "rejected"}
    /\ ~(pc = "rejected" /\ call.kind = "single")
    /\ clock < MaxClock
    /\ clock' = clock + 1
    /\ UNCHANGED <<db, call, pc, idx, results, accountId, frameworkNotes, transcripts, nbas,
                   frameworkCoverage, qualitySignal, oracle, error, outcome, log>>

\* the route handler has answered; the next request starts from scratch
Respond ==
    /\ outcome.status \in {"resolved", "rejected"}
    /\ call.kind = "dashboard" => pc = "answered"
    /\ call' = NoCall
    /\ pc' = "idle"
    /\ idx' = 0
    /\ results' = <<>>
    /\ accountId' = ""
    /\ frameworkNotes' = <<>>
    /\ transcripts' = <<>>
    /\ nbas' = <<>>
    /\ frameworkCoverage' = 0
    /\ qualitySignal' = 0
    /\ oracle' = NoOracle
    /\ error' = "none"
    /\ outcome' = NoOutcome
    /\ log' = <<>>
    /\ UNCHANGED <<db, clock>>

Next ==
    \/ \E id \in AccountIds : CalculatePipelineHealth(id)
    \/ \E ids \in IdLists(MaxBulk) : CalculateBulkPipelineHealth(ids)
    \/ \E ids \in UserAccountLists : \E failing \in DashboardReads :
          \E nCompleted \in CompletedCounts : DashboardStats(ids, failing, nCompleted)
    \/ \E nCompleted \in CompletedCounts : DashboardAnswer(nCompleted)
    \/ GetFrameworkNotesResolves
    \/ GetFrameworkNotesRejects
    \/ GetTranscriptsResolves
    \/ GetTranscriptsRejects
    \/ BulkCatch
    \/ Tick
    \/ Respond

Spec == Init /\ [][Next]_vars

-----------------------------------------------------------------------------
(* Lines 57-98 of calculatePipelineHealth, run on record sets drawn from the       *)
(* samples: the computation that follows the three reads.                          *)

InitCalc ==
    /\ frameworkNotes \in SampleNotes
    /\ transcripts \in SampleTranscripts
    /\ nbas \in SampleNBAs
    /\ db = [id \in AccountIds |->
               IF id = "acctA"
               THEN [notes |-> frameworkNotes, transcripts |-> transcripts, nbas |-> nbas]
               ELSE EmptyAccount]
    /\ clock = 0
    /\ call = [kind |-> "single", accountIds |-> <<"acctA">>]
    /\ pc = "fetched"
    /\ idx = 0
    /\ results = <<>>
    /\ accountId = "acctA"
    /\ frameworkCoverage = 0
    /\ qualitySignal = 0
    /\ oracle = NoOracle
    /\ error = "none"
    /\ outcome = Pending
    /\ log = <<LogEntry("getFrameworkNotesByAccount", "acctA", "ok"),
               LogEntry("getTranscriptsByAccount", "acctA", "ok"),
               LogEntry("getNBAsByAccount", "acctA", "ok")>>

\* an entry without the test of line 140: the oracle is asked about an empty excerpt
QualitySignalEntryUnguarded(ts) ==
    [await |-> TRUE,
     sorted |-> SortByDateDesc(ts),
     excerpt |-> IF Len(ts) = 0 THEN <<>>
                 ELSE Slice0(SortByDateDesc(ts)[1].content, TRANSCRIPT_EXCERPT)]

\* lines 140-149: calculateQualitySignal up to its await: without a transcript it
\* returns at once, otherwise it sorts the array in place and cuts the excerpt of
\* the first transcript for the oracle
QualitySignalEntry(ts) ==
    IF Len(ts) = 0 THEN [await |-> FALSE, sorted |-> ts, excerpt |-> <<>>]
    ELSE [await |-> TRUE,
          sorted |-> SortByDateDesc(ts),
          excerpt |-> Slice0(SortByDateDesc(ts)[1].content, TRANSCRIPT_EXCERPT)]

\* line 58, and calculateQualitySignal (line 61) up to its await: without a
\* transcript it returns 0, otherwise it calls the oracle
BeginCompute ==
    /\ pc = "fetched"
    /\ frameworkCoverage' = calculateFrameworkCoverage(frameworkNotes)
    /\ IF ~QualitySignalEntry(transcripts).await
       THEN /\ qualitySignal' = 0
            /\ pc' = "haveQuality"
            /\ UNCHANGED <<transcripts, oracle, log>>
       ELSE /\ transcripts' = QualitySignalEntry(transcripts).sorted
            /\ oracle' = [calls |-> oracle.calls + 1,
                          excerpt |-> QualitySignalEntry(transcripts).excerpt,
                          response |-> NoResponse,
                          path |-> "none"]
            /\ log' = Append(log, LogEntry("chat.completions.create", accountId, "pending"))
            /\ UNCHANGED qualitySignal
            /\ pc' = "awaitOracle"
    /\ UNCHANGED <<db, clock, call, idx, results, accountId, frameworkNotes, nbas, error,
                   outcome>>

\* a first failure of the call is answered by calling the oracle once more
OracleSettlesRetry(resp) ==
    /\ pc = "awaitOracle"
    /\ IF resp.kind # "reply" /\ oracle.calls < 2
       THEN /\ oracle' = [oracle EXCEPT !.calls = oracle.calls + 1]
            /\ log' = Append(SettleLast(log, resp.kind),
                             LogEntry("chat.completions.create", accountId, "pending"))
            /\ UNCHANGED <<pc, qualitySignal>>
       ELSE /\ LET q == QualityAfterOracle(resp, transcripts, frameworkNotes)
               IN /\ qualitySignal' = q.value
                  /\ oracle' = [oracle EXCEPT !.response = resp, !.path = q.path]
            /\ log' = SettleLast(log, IF resp.kind = "reply" THEN "ok" ELSE resp.kind)
            /\ pc' = "haveQuality"
    /\ UNCHANGED <<db, clock, call, idx, results, accountId, frameworkNotes, transcripts,
                   nbas, frameworkCoverage, error, outcome>>

\* line 180 settles with resp; lines 187-188 or the catch of lines 190-194
OracleSettles(resp) ==
    /\ pc = "awaitOracle"
    /\ LET q == QualityAfterOracle(resp, transcripts, frameworkNotes)
       IN /\ qualitySignal' = q.value
          /\ oracle' = [oracle EXCEPT !.response = resp, !.path = q.path]
    /\ log' = SettleLast(log, IF resp.kind = "reply" THEN "ok" ELSE resp.kind)
    /\ pc' = "haveQuality"
    /\ UNCHANGED <<db, clock, call, idx, results, accountId, frameworkNotes, transcripts,
                   nbas, frameworkCoverage, error, outcome>>

\* lines 64-98
FinishCompute ==
    /\ pc = "haveQuality"
    /\ LET recency == calculateRecency(transcripts, clock)
           nbaProgress == calculateNBAProgress(nbas, clock)
           readinessFlags == extractReadinessFlags(frameworkNotes)
       IN outcome' = [status |-> "resolved",
                      value |-> PipelineHealthScore(accountId, frameworkCoverage,
                                                    qualitySignal, recency, nbaProgress,
                                                    readinessFlags, clock)]
    /\ pc' = "resolved"
    /\ UNCHANGED <<db, clock, call, idx, results, accountId, frameworkNotes, transcripts,
                   nbas, frameworkCoverage, qualitySignal, oracle, error, log>>

NextCalc ==
    \/ BeginCompute
    \/ \E resp \in OracleResponses : OracleSettles(resp)
    \/ FinishCompute
    \/ Tick

SpecCalc == InitCalc /\ [][NextCalc]_vars

-----------------------------------------------------------------------------
(* Properties *)

\* the log entries of operations that did not succeed
Failures == SelectSeq(log, LAMBDA e : e.result \notin {"ok", "pending"})

ZeroBreakdown ==
    [frameworkCoverage |-> 0, qualitySignal |-> 0, recency |-> 0, nbaProgress |-> 0]

AllFlagsFalse ==
    [economicBuyer |-> JsFalse, champion |-> JsFalse, painExplicit |-> JsFalse,
     decisionProcess |-> JsFalse, decisionCriteria |-> JsFalse, paperProcess |-> JsFalse]

\* the transcripts of the list with the latest creation time
Latest(ts) ==
    {ts[i] : i \in {j \in 1..Len(ts) : \A k \in 1..Len(ts) : ts[j].createdAt >= ts[k].createdAt}}

\* 0.25 for each of the four indicator classes present in the sample texts:
\* "$5 VP Q3 will" has all four, "10% by May" a figure and a month,
\* "CEO said hi" a role, "hello" none
ExpectedFallback(text) ==
    CASE text = TextAll -> SCALE
      [] text = TextTwo -> SCALE \div 2
      [] text = TextRole -> SCALE \div 4
      [] text = TextNone -> 0
      [] text = TextDeal -> SCALE
      [] text = TextThree -> (3 * SCALE) \div 4

\* C1: calculateBulkPipelineHealth never rejects; while it runs, results holds one
\* entry per account already processed, the i-th carrying the i-th input id, and
\* the i-th failed computation has left a zero "At Risk" entry at position i; when
\* it resolves, the list has the length of the input and the ids in input order
\* (duplicates included).
C1_BulkResolvesInOrder ==
    call.kind = "bulk" =>
      /\ outcome.status # "rejected"
      /\ Len(results) <= Len(call.accountIds)
      /\ \A i \in 1..Len(results) : results[i].accountId = call.accountIds[i]
      /\ Len(results) \in {Len(Failures), Len(Failures) - 1}
      /\ \A i \in 1..Len(results) :
            /\ Failures[i].accountId = results[i].accountId
            /\ results[i].score = 0
            /\ results[i].label = "At Risk"
      /\ outcome.status = "resolved" =>
            /\ Len(outcome.value) = Len(call.accountIds)
            /\ \A i \in 1..Len(call.accountIds) :
                  outcome.value[i].accountId = call.accountIds[i]

\* a bulk run over [A, B, A] has resolved after a failed read and a failed call
C1_Witness ==
    /\ call.kind = "bulk"
    /\ outcome.status = "resolved"
    /\ Len(outcome.value) = 3
    /\ call.accountIds[1] = call.accountIds[3]
    /\ call.accountIds[1] # call.accountIds[2]
    /\ \E i \in 1..Len(log) : log[i].result = "io"
    /\ \E i \in 1..Len(log) : log[i].result = "not a function"

\* C2: a calculatePipelineHealth call in which a record fetch has failed is
\* rejected; it has not resolved with a PipelineHealthScore.
C2_FetchFailureRejects ==
    (call.kind = "single" /\ Len(Failures) > 0) =>
      /\ outcome.status = "rejected"
      /\ pc = "rejected"

\* the transcripts read of a single call failed and the call is rejected
C2_Witness ==
    /\ call.kind = "single"
    /\ outcome.status = "rejected"
    /\ log[Len(log)] = LogEntry("getTranscriptsByAccount", accountId, "io")

\* C3: calculatePipelineHealth rejects only when a read of the data layer has
\* failed: with the data layer answering every read, it resolves.
C3_OnlyDataAccessFailurePropagates ==
    (call.kind = "single" /\ outcome.status = "rejected") =>
      \E i \in 1..Len(log) : log[i].result = "io"

C5_AllFailuresFallBack ==
    (/\ pc \in {"haveQuality", "resolved"}
     /\ Len(db[accountId].transcripts) >= 1
     /\ \/ oracle.response.kind \in {"throw", "timeout"}
        \/ oracle.response.form \in {"malformed", "empty", "noContent"}
        \/ /\ oracle.response.form = "object"
           /\ oracle.response.qualityScore.t # "number") =>
      \E t \in Latest(db[accountId].transcripts) :
         qualitySignal = ExpectedFallback(t.content)

\* C6: a calculatePipelineHealth call on an account without notes, transcripts and
\* action items, the data layer answering every read, ends resolved with score 0,
\* label "At Risk", a zero breakdown and six false flags.
C6_EmptyAccountScoresZero ==
    (/\ call.kind = "single"
     /\ pc \in {"resolved", "rejected"}
     /\ db[accountId] = EmptyAccount
     /\ \A i \in 1..Len(log) : log[i].result # "io") =>
      /\ outcome.status = "resolved"
      /\ outcome.value.score = 0
      /\ outcome.value.label = "At Risk"
      /\ outcome.value.breakdown = ZeroBreakdown
      /\ outcome.value.readinessFlags = AllFlagsFalse

\* C7: the step by which the bulk loop leaves a rejected computation appends, for
\* that account, the entry with score 0, label "At Risk", a zero breakdown, six
\* false flags and the clock of that moment, and moves to the next position: the
\* next account's notes are requested or, at the end of the list, the results are
\* returned.
C7_BulkSubstitutesDefault ==
    [][(call.kind = "bulk" /\ pc = "rejected" /\ pc' # "rejected") =>
         /\ results' = Append(results,
                              [accountId |-> accountId, score |-> 0, label |-> "At Risk",
                               breakdown |-> ZeroBreakdown,
                               readinessFlags |-> AllFlagsFalse,
                               lastUpdatedAt |-> clock])
         /\ idx' = idx + 1
         /\ IF idx' <= Len(call.accountIds)
            THEN pc' = "getFrameworkNotes" /\ accountId' = call.accountIds[idx']
            ELSE pc' = "done" /\ outcome' = [status |-> "resolved", value |-> results']]_vars

\* the second account of a bulk run is being read after the first one failed and
\* got its default at a later time than the run started
C7_Witness ==
    /\ call.kind = "bulk"
    /\ idx = 2
    /\ pc = "getFrameworkNotes"
    /\ Len(results) = 1
    /\ results[1].accountId = call.accountIds[1]
    /\ results[1].lastUpdatedAt > 0

\* C8: the score of every returned PipelineHealthScore is an integer from 0 to 100.
C8_ScoreWithinZeroToHundred ==
    /\ (call.kind = "single" /\ outcome.status = "resolved") =>
          outcome.value.score \in 0..100
    /\ \A i \in 1..Len(results) : results[i].score \in 0..100

\* C9: the four sub-scores of every returned PipelineHealthScore are numbers in [0, 1].
C9_SubScoresWithinUnitInterval ==
    (call.kind = "single" /\ outcome.status = "resolved") =>
      LET b == outcome.value.breakdown
      IN \A x \in {b.frameworkCoverage, b.qualitySignal, b.recency, b.nbaProgress} :
            ~IsNaN(x) /\ 0 <= x /\ x <= SCALE

\* C10: the score of a result of calculatePipelineHealth is
\* round(100 * (0.5 * coverage + 0.3 * quality + 0.1 * recency + 0.1 * taskProgress))
\* of the four sub-scores of that result's breakdown, which are the values the
\* computation held.
C10_ScoreIsRoundedWeightedSum ==
    (call.kind = "single" /\ outcome.status = "resolved") =>
      LET b == outcome.value.breakdown
          sum == AddF(AddF(AddF(MulF(SCALE \div 2, b.frameworkCoverage),
                                MulF((3 * SCALE) \div 10, b.qualitySignal)),
                           MulF(SCALE \div 10, b.recency)),
                      MulF(SCALE \div 10, b.nbaProgress))
      IN /\ b.frameworkCoverage = frameworkCoverage
         /\ b.qualitySignal = qualitySignal
         /\ IF IsNaN(sum) THEN IsNaN(outcome.value.score)
            ELSE outcome.value.score = (100 * sum + SCALE \div 2) \div SCALE

\* a result whose four sub-scores are all positive, coverage and quality differing
C10_Witness ==
    /\ call.kind = "single"
    /\ outcome.status = "resolved"
    /\ LET b == outcome.value.breakdown
       IN /\ \A x \in {b.frameworkCoverage, b.qualitySignal, b.recency, b.nbaProgress} :
                ~IsNaN(x) /\ x > 0
          /\ b.frameworkCoverage # b.qualitySignal
          /\ outcome.value.score > 0

\* every PipelineHealthScore handed to a caller so far: the value a single call
\* resolved with, and the entries of the bulk results
Returned ==
    (IF call.kind = "single" /\ outcome.status = "resolved" THEN {outcome.value} ELSE {})
      \cup {results[i] : i \in 1..Len(results)}

\* C11: in every returned PipelineHealthScore the label is "Healthy" exactly when
\* the score is at least 80, "Watchlist" exactly when it is at least 50 and less
\* than 80, "At Risk" exactly when it is less than 50 (no comparison holds of a
\* score that is not a number).
C11_LabelDeterminedByScore ==
    \A r \in Returned :
       /\ r.label = "Healthy" <=> (~IsNaN(r.score) /\ r.score >= 80)
       /\ r.label = "Watchlist" <=> (~IsNaN(r.score) /\ 50 <= r.score /\ r.score < 80)
       /\ r.label = "At Risk" <=> (~IsNaN(r.score) /\ r.score < 50)

\* the thresholds of C11 on the results whose score is a number
LabelThresholdsOnNumbers ==
    \A r \in Returned :
       ~IsNaN(r.score) =>
          r.label = (IF r.score >= 80 THEN "Healthy"
                     ELSE IF r.score >= 50 THEN "Watchlist" ELSE "At Risk")

\* the field each readiness flag stands for
FlagFields ==
    [economicBuyer |-> "Economic Buyer", champion |-> "Champion",
     painExplicit |-> "Identified Pain", decisionProcess |-> "Decision Process",
     decisionCriteria |-> "Decision Criteria", paperProcess |-> "Paper Process"]

\* the sentinel rule: a string with a character that is not white space which
\* holds neither of the two markers
SentinelKnown(v) ==
    /\ v.t = "string"
    /\ \E i \in 1..Len(v.s) : ~IsWhite(v.s[i])
    /\ \A i \in 1..Len(v.s) :
          ~HasAt(v.s, i, UnknownMarker) /\ ~HasAt(v.s, i, NotMentionedMarker)

\* the positions of the MEDDPICC notes among the fetched notes
MeddpiccAt == {i \in 1..Len(frameworkNotes) : frameworkNotes[i].framework = "MEDDPICC"}

\* C12: in the result of calculatePipelineHealth each of the six flags is true
\* exactly when its field of the MEDDPICC note (the first one fetched) is known
\* under the sentinel rule, whatever the other notes hold; without a MEDDPICC note
\* all six are false.
C12_FlagsFromMeddpiccNote ==
    (call.kind = "single" /\ outcome.status = "resolved") =>
      LET flags == outcome.value.readinessFlags
      IN IF MeddpiccAt = {}
         THEN \A k \in DOMAIN FlagFields : flags[k] = JsFalse
         ELSE LET first == CHOOSE i \in MeddpiccAt : \A j \in MeddpiccAt : i <= j
                  content == frameworkNotes[first].content
              IN \A k \in DOMAIN FlagFields :
                    flags[k] = JsTrue <=> SentinelKnown(Get(content, FlagFields[k]))

\* a result for an account with a MEDDPICC note and a BANT note: the buyer is
\* known and flagged, the champion is neither
C12_Witness ==
    /\ call.kind = "single"
    /\ outcome.status = "resolved"
    /\ MeddpiccAt # {}
    /\ \E i \in 1..Len(frameworkNotes) : frameworkNotes[i].framework = "BANT"
    /\ outcome.value.readinessFlags.economicBuyer = JsTrue
    /\ outcome.value.readinessFlags.champion # JsTrue

\* the flags a result carries are those of the fetched notes, whatever the oracle
\* call did: not made, failed, or answered with any score and any flags
FlagsIndependentOfOracle ==
    (call.kind = "single" /\ outcome.status = "resolved") =>
      outcome.value.readinessFlags = extractReadinessFlags(frameworkNotes)

\* C13: the readiness flags of a result are a function of the fetched notes alone,
\* so two runs over the same records report the same flags whatever their oracle
\* calls returned; and when the oracle answered with all flags true while none of
\* the six fields of the MEDDPICC note is known, the six reported flags are false.
C13_OracleDoesNotReachFlags ==
    (call.kind = "single" /\ outcome.status = "resolved") =>
      /\ outcome.value.readinessFlags = extractReadinessFlags(frameworkNotes)
      /\ (/\ oracle.response.flagsAllTrue
          /\ MeddpiccAt # {}
          /\ \A i \in MeddpiccAt : \A k \in DOMAIN FlagFields :
                ~SentinelKnown(Get(frameworkNotes[i].content, FlagFields[k]))) =>
            \A k \in DOMAIN FlagFields : outcome.value.readinessFlags[k] = JsFalse

\* C14: each of the six readiness flags of every returned PipelineHealthScore is
\* the boolean true or the boolean false.
C14_FlagsAreBooleans ==
    \A r \in Returned :
       \A k \in DOMAIN FlagFields : r.readinessFlags[k] \in {JsTrue, JsFalse}

-----------------------------------------------------------------------------
(* Lines 58 and 84 of calculatePipelineHealth on notes of every shape: the       *)
(* coverage and the readiness flags are functions of the fetched notes alone.     *)

\* what a field of a note's content (jsonb) may hold
FieldValues ==
    { JsUndefined, JsNull, JsString(<<>>), JsString(<<" ", " ">>), KnownValue,
      JsString(UnknownMarker), JsString(<<"T", "B", "D", ":", " ">> \o UnknownMarker),
      JsString(NotMentionedMarker),
      JsString(<<"s", "e", "e", ":", " ">> \o NotMentionedMarker \o <<" ", "y", "e", "t">>),
      JsString(<<"n", "o", "t", " ", "m", "e", "n", "t", "i", "o", "n", "e", "d">>),
      JsNumber(42 * SCALE), JsNumber(0), JsTrue, JsObject }

\* one fully known note for each framework of the set S, from position k of
\* FrameworkOrder on
RECURSIVE FullNotesOf(_, _)
FullNotesOf(S, k) ==
    IF k > Len(FrameworkOrder) THEN <<>>
    ELSE (IF FrameworkOrder[k] \in S THEN <<FullNote(FrameworkOrder[k], 0 - k)>> ELSE <<>>)
           \o FullNotesOf(S, k + 1)

WeightedFrameworks == {FrameworkOrder[k] : k \in 1..Len(FrameworkOrder)}

\* how many leading fields of a sampled note are known
KnownPrefixes == {0, 1, 3}

NoteLists ==
    SampleNotes
      \cup {FullNotesOf(S, 1) : S \in SUBSET WeightedFrameworks}
      \cup {<<Note(f, k, v, 0)>> : f \in WeightedFrameworks, k \in KnownPrefixes,
                                   v \in FieldValues}
      \cup {<<Note("BANT", k, v, 0), PlanNote(0), Note("MEDDPICC", 3, v, 0 - 1)>> :
              k \in KnownPrefixes, v \in FieldValues}
      \cup {<<Note(f, k1, JsString(UnknownMarker), c[1]), PlanNote(0 - 5),
              Note(f, k2, JsUndefined, c[2])>> :
              f \in {"MEDDPICC", "BANT"}, k1 \in KnownPrefixes, k2 \in KnownPrefixes,
              c \in {<<0 - 10, 0>>, <<0, 0 - 10>>}}
      \cup {<<PlanNote(c)>> : c \in {0 - 1, 0}}
      \cup {<<PlanNote(0), PlanNote(0 - 3)>>}

InitNotes ==
    /\ frameworkNotes = <<>>
    /\ transcripts = <<>>
    /\ nbas = <<>>
    /\ \E stored \in NoteLists :
          db = [id \in AccountIds |->
                  IF id = "acctA"
                  THEN [notes |-> stored, transcripts |-> <<>>, nbas |-> <<>>]
                  ELSE EmptyAccount]
    /\ clock = 0
    /\ call = [kind |-> "single", accountIds |-> <<"acctA">>]
    /\ pc = "stored"
    /\ idx = 0
    /\ results = <<>>
    /\ accountId = "acctA"
    /\ frameworkCoverage = 0
    /\ qualitySignal = 0
    /\ oracle = NoOracle
    /\ error = "none"
    /\ outcome = Pending
    /\ log = <<>>

\* line 49: the notes of the account as the data layer returns them
FetchNotes ==
    /\ pc = "stored"
    /\ frameworkNotes' = getFrameworkNotesByAccount(accountId)
    /\ pc' = "notes"
    /\ UNCHANGED <<db, clock, call, idx, results, accountId, transcripts, nbas,
                   frameworkCoverage, qualitySignal, oracle, error, outcome, log>>

\* line 58
CoverageStep ==
    /\ pc = "notes"
    /\ frameworkCoverage' = calculateFrameworkCoverage(frameworkNotes)
    /\ pc' = "covered"
    /\ UNCHANGED <<db, clock, call, idx, results, accountId, frameworkNotes, transcripts,
                   nbas, qualitySignal, oracle, error, outcome, log>>

\* line 84
FlagsStep ==
    /\ pc = "covered"
    /\ outcome' = [status |-> "flags", value |-> extractReadinessFlags(frameworkNotes)]
    /\ pc' = "flagged"
    /\ UNCHANGED <<db, clock, call, idx, results, accountId, frameworkNotes, transcripts,
                   nbas, frameworkCoverage, qualitySignal, oracle, error, log>>

NextNotes ==
    \/ FetchNotes
    \/ CoverageStep
    \/ FlagsStep

SpecNotes == InitNotes /\ [][NextNotes]_vars

-----------------------------------------------------------------------------
(* Properties of the coverage and of the flags *)

\* the known-field rule in the words "a non-empty string that does not equal
\* 'Unknown (not mentioned)' and does not contain 'Not mentioned'"
KnownAsWorded(v) ==
    /\ v.t = "string"
    /\ v.s # <<>>
    /\ v.s # UnknownMarker
    /\ \A i \in 1..Len(v.s) : ~HasAt(v.s, i, NotMentionedMarker)

\* the weights 0.4, 0.3, 0.15, 0.075, 0.075 in units of 0.025
WeightUnits(framework) ==
    CASE framework = "MEDDPICC" -> 16
      [] framework = "VEF" -> 12
      [] framework = "BANT" -> 6
      [] framework = "Qual-LTS" -> 3
      [] framework = "Qual-LSS" -> 3

\* the weighted frameworks that have a note among the fetched notes
Present ==
    {f \in WeightedFrameworks : \E i \in 1..Len(frameworkNotes) : frameworkNotes[i].framework = f}

\* the first fetched note of a present framework
NoteOf(f) ==
    frameworkNotes[CHOOSE i \in 1..Len(frameworkNotes) :
                     /\ frameworkNotes[i].framework = f
                     /\ \A j \in 1..(i - 1) : frameworkNotes[j].framework # f]

\* how many fields of framework f its note has known under Rule
KnownCount(f, Rule(_)) ==
    Cardinality({i \in 1..Len(FRAMEWORK_FIELDS(f)) :
                   Rule(Get(NoteOf(f).content, FRAMEWORK_FIELDS(f)[i]))})

\* 120 is a common multiple of the field counts 8, 6, 4, 5 and 12: the terms of
\* sum((known / fields) * weight) and of sum(weight), each times 120 / 0.025
CoverageTerm(f, Rule(_)) ==
    IF f \in Present
    THEN KnownCount(f, Rule) * (120 \div Len(FRAMEWORK_FIELDS(f))) * WeightUnits(f)
    ELSE 0

WeightTerm(f) == IF f \in Present THEN 120 * WeightUnits(f) ELSE 0

CoverageNumerator(Rule(_)) ==
    CoverageTerm("MEDDPICC", Rule) + CoverageTerm("VEF", Rule) + CoverageTerm("BANT", Rule)
      + CoverageTerm("Qual-LTS", Rule) + CoverageTerm("Qual-LSS", Rule)

CoverageDenominator ==
    WeightTerm("MEDDPICC") + WeightTerm("VEF") + WeightTerm("BANT")
      + WeightTerm("Qual-LTS") + WeightTerm("Qual-LSS")

Abs(x) == IF x < 0 THEN 0 - x ELSE x

CoverageTolerance == SCALE \div 1000

\* x is sum((known / fields) * weight) / sum(weight) over the present frameworks, to
\* within CoverageTolerance / SCALE, the error of the fixed-point arithmetic (one
\* field more or less moves the quotient by 0.006 at least), and 0 when none is
\* present
IsCoverageUnder(x, Rule(_)) ==
    IF Present = {} THEN x = 0
    ELSE Abs(x * CoverageDenominator - CoverageNumerator(Rule) * SCALE)
           <= CoverageTolerance * CoverageDenominator

\* the flags are true exactly on the fields of the first MEDDPICC note known under Rule
FlagsUnder(flags, Rule(_)) ==
    "MEDDPICC" \in Present =>
      \A k \in DOMAIN FlagFields :
         flags[k] = JsTrue <=> Rule(Get(NoteOf("MEDDPICC").content, FlagFields[k]))

\* C15 as worded: coverage counts, and the flags report, exactly the fields whose
\* value is a non-empty string that does not equal "Unknown (not mentioned)" and
\* does not contain "Not mentioned".
C15_KnownRuleAsWorded ==
    /\ pc \in {"covered", "flagged"} => IsCoverageUnder(frameworkCoverage, KnownAsWorded)
    /\ pc = "flagged" => FlagsUnder(outcome.value, KnownAsWorded)

\* C15 amended: coverage counts, and the flags report, exactly the fields whose
\* value is a string with a character that is not white space and that contains
\* neither "Unknown (not mentioned)" nor "Not mentioned" (case-sensitive); both
\* computations apply this one rule.
C15_KnownRule ==
    /\ pc \in {"covered", "flagged"} => IsCoverageUnder(frameworkCoverage, SentinelKnown)
    /\ pc = "flagged" => FlagsUnder(outcome.value, SentinelKnown)

\* coverage and flags are computed for a MEDDPICC note with three known fields
\* whose other fields hold a marker inside a longer text
C15_Witness ==
    /\ pc = "flagged"
    /\ "MEDDPICC" \in Present
    /\ Get(NoteOf("MEDDPICC").content, "Champion")
         = JsString(<<"T", "B", "D", ":", " ">> \o UnknownMarker)
    /\ outcome.value.champion = JsFalse
    /\ outcome.value.economicBuyer = JsTrue
    /\ frameworkCoverage > 0
    /\ frameworkCoverage < SCALE

\* C16: the coverage computed from the fetched notes is the sum, over the weighted
\* frameworks that have a note, of (known fields / fields of the framework) times
\* the framework's weight, divided by the sum of the weights of those frameworks,
\* with weights 0.4, 0.3, 0.15, 0.075 and 0.075; it is 0 when there is no note.
C16_CoverageIsWeightedAverage ==
    pc \in {"covered", "flagged"} =>
      /\ IsCoverageUnder(frameworkCoverage, SentinelKnown)
      /\ 0 <= frameworkCoverage /\ frameworkCoverage <= SCALE
      /\ Len(frameworkNotes) = 0 => frameworkCoverage = 0

\* the coverage of an account with a BANT note, a MEDDPICC note and a note of the
\* unweighted framework, of which some fields are known and some are not
C16_Witness ==
    /\ pc = "covered"
    /\ Present = {"MEDDPICC", "BANT"}
    /\ Len(frameworkNotes) = 3
    /\ KnownCount("BANT", SentinelKnown) = 1
    /\ KnownCount("MEDDPICC", SentinelKnown) = 3
    /\ frameworkCoverage > 0
    /\ frameworkCoverage < SCALE

\* every field of the note is known
FullyKnown(note) ==
    \A i \in 1..Len(FRAMEWORK_FIELDS(note.framework)) :
       SentinelKnown(Get(note.content, FRAMEWORK_FIELDS(note.framework)[i]))

\* C17: when the fetched notes are one fully known note for each framework of a
\* non-empty set of weighted frameworks, the coverage is exactly 1, whichever and
\* however many frameworks the set holds.
C17_FullFrameworksCoverOne ==
    (/\ pc \in {"covered", "flagged"}
     /\ Len(frameworkNotes) > 0
     /\ \A i \in 1..Len(frameworkNotes) :
           /\ frameworkNotes[i].framework \in WeightedFrameworks
           /\ FullyKnown(frameworkNotes[i])
           /\ \A j \in 1..Len(frameworkNotes) :
                 frameworkNotes[j].framework = frameworkNotes[i].framework => j = i) =>
      frameworkCoverage = SCALE

\* the coverage of an account whose only notes are a full BANT, a full Qual-LTS and
\* a full Qual-LSS note
C17_Witness ==
    /\ pc = "covered"
    /\ Present = {"BANT", "Qual-LTS", "Qual-LSS"}
    /\ Len(frameworkNotes) = 3
    /\ \A i \in 1..3 : FullyKnown(frameworkNotes[i])
    /\ frameworkCoverage = SCALE

\* C18: for an account without a transcript the quality sub-score is 0, no oracle
\* call is made, the rule-based scorer gives 0 for the empty list as well, and the
\* result reports 0.
C18_NoTranscriptNoQuality ==
    (pc \in {"haveQuality", "resolved"} /\ Len(db[accountId].transcripts) = 0) =>
      /\ qualitySignal = 0
      /\ oracle.calls = 0
      /\ \A i \in 1..Len(log) : log[i].op # "chat.completions.create"
      /\ calculateFallbackQuality(transcripts, frameworkNotes) = 0
      /\ outcome.status = "resolved" => outcome.value.breakdown.qualitySignal = 0

\* a result for an account with notes and action items but no transcript
C18_Witness ==
    /\ pc = "resolved"
    /\ outcome.status = "resolved"
    /\ Len(db[accountId].transcripts) = 0
    /\ Len(frameworkNotes) > 0
    /\ Len(nbas) > 0
    /\ oracle.calls = 0
    /\ outcome.value.breakdown.qualitySignal = 0
    /\ outcome.value.score > 0

\* the indicator classes that occur in each sample text, read off the text
IndicatorClasses(text) ==
    CASE text = TextAll -> {"metric", "role", "timeline", "commitment"}
      [] text = TextDeal -> {"metric", "role", "timeline", "commitment"}
      [] text = TextThree -> {"metric", "role", "timeline"}
      [] text = TextTwo -> {"metric", "timeline"}
      [] text = TextRole -> {"role"}
      [] text = TextNone -> {}

\* C19: once the oracle call has failed, the quality sub-score is 0.25 times the
\* number of indicator classes (metric or monetary figure, role, date or timeline,
\* commitment verb) that occur in the text of the latest transcript, hence one of
\* 0, 0.25, 0.5, 0.75, 1, and it is 1 for "$50k VP of Sales Q3 will schedule".
C19_FallbackCountsIndicatorClasses ==
    (/\ pc \in {"haveQuality", "resolved"}
     /\ oracle.response.kind \in {"throw", "timeout"}) =>
      /\ \E t \in Latest(db[accountId].transcripts) :
            qualitySignal = (Cardinality(IndicatorClasses(t.content)) * SCALE) \div 4
      /\ qualitySignal \in {0, SCALE \div 4, SCALE \div 2, (3 * SCALE) \div 4, SCALE}
      /\ (\E t \in Latest(db[accountId].transcripts) : t.content = TextDeal) =>
            qualitySignal = SCALE
      /\ outcome.status = "resolved" => outcome.value.breakdown.qualitySignal = qualitySignal

\* the oracle call threw for an account whose latest transcript is
\* "$50k VP of Sales Q3 will schedule", and the result reports quality 1
C19_Witness ==
    /\ pc = "resolved"
    /\ oracle.response.kind = "throw"
    /\ oracle.path = "fallback"
    /\ transcripts[1].content = TextDeal
    /\ outcome.status = "resolved"
    /\ outcome.value.breakdown.qualitySignal = SCALE

\* the action items created no more than 30 days before the clock
InWindow == {i \in 1..Len(nbas) : clock - nbas[i].createdAt <= 30}

\* C20: the task-progress sub-score of a result is 0 when no action item was
\* created within the 30 days before the computation, however many older items are
\* Completed, and otherwise the number of Completed items among those created in
\* that window divided by the number of items created in it, whatever the status of
\* the others.
C20_TaskProgressOverTrailingWindow ==
    (call.kind = "single" /\ outcome.status = "resolved") =>
      LET completed == {i \in InWindow : nbas[i].status = "Completed"}
          progress == outcome.value.breakdown.nbaProgress
      IN /\ InWindow = {} => progress = 0
         /\ InWindow # {} =>
               progress = (Cardinality(completed) * SCALE) \div Cardinality(InWindow)
         /\ nbas = <<NBA("Completed", 0 - 40)>> => progress = 0

\* a result for an account with a Completed item and an In Progress item in the
\* window and an Overdue item older than it: progress is one half
C20_Witness ==
    /\ call.kind = "single"
    /\ outcome.status = "resolved"
    /\ Len(nbas) = 3
    /\ Cardinality(InWindow) = 2
    /\ \E i \in InWindow : nbas[i].status = "In Progress"
    /\ \E i \in (1..Len(nbas)) \ InWindow : nbas[i].status = "Overdue"
    /\ outcome.value.breakdown.nbaProgress = SCALE \div 2

\* days from the latest creation time among the account's transcripts to the clock
Elapsed ==
    LET ts == db[accountId].transcripts
    IN clock - (CHOOSE d \in {ts[i].createdAt : i \in 1..Len(ts)} :
                  \A i \in 1..Len(ts) : d >= ts[i].createdAt)

\* C21: the recency sub-score of a result is 0 for an account without a transcript;
\* otherwise it is a function of the days elapsed since the latest transcript
\* timestamp alone, in whatever order the transcripts are stored: exactly 1 at 0
\* days, exp(-1) = 0.3679 at 30 days, and strictly smaller for each further day.
C21_RecencyDecaysWithElapsedTime ==
    (call.kind = "single" /\ outcome.status = "resolved") =>
      LET r == outcome.value.breakdown.recency
      IN IF Len(db[accountId].transcripts) = 0 THEN r = 0
         ELSE /\ r = MathExpNegOver30(Elapsed)
              /\ Elapsed = 0 => r = SCALE
              /\ Elapsed = 30 => Abs(r - 3679) <= 1
              /\ MathExpNegOver30(Elapsed + 1) < r
              /\ MathExpNegOver30(Elapsed - 1) > r

\* a result computed 30 days after the account's only transcript: recency 0.3679
C21_Witness ==
    /\ call.kind = "single"
    /\ outcome.status = "resolved"
    /\ Len(db[accountId].transcripts) = 1
    /\ Elapsed = 30
    /\ Abs(outcome.value.breakdown.recency - 3679) <= 1

\* the oracle calls issued so far, as logged
OracleCalls == {i \in 1..Len(log) : log[i].op = "chat.completions.create"}

\* C22: an execution of calculatePipelineHealth calls the oracle at most once, and
\* the step in which that call fails is the step that takes the rule-based score:
\* no further call is issued, the quality sub-score is the fallback's, and the
\* computation goes on to the aggregation.
C22_OracleNeverRetried ==
    /\ [](oracle.calls <= 1 /\ Cardinality(OracleCalls) <= 1)
    /\ [][(pc = "awaitOracle" /\ log' # log /\ log'[Len(log)].result \in {"throw", "timeout"}) =>
            /\ pc' = "haveQuality"
            /\ oracle'.calls = 1
            /\ Len(log') = Len(log)
            /\ oracle'.path = "fallback"
            /\ \E t \in Latest(db[accountId].transcripts) :
                  qualitySignal' = ExpectedFallback(t.content)]_vars

\* the one oracle call of an execution has timed out and the result carries the
\* fallback's score of "10% by May"
C22_Witness ==
    /\ pc = "resolved"
    /\ oracle.calls = 1
    /\ oracle.response.kind = "timeout"
    /\ oracle.path = "fallback"
    /\ Cardinality(OracleCalls) = 1
    /\ outcome.status = "resolved"
    /\ outcome.value.breakdown.qualitySignal = SCALE \div 2

\* the per-account reads of calculatePipelineHealth, by the names it calls them
AccountReads == {"getFrameworkNotesByAccount", "getTranscriptsByAccount", "getNBAsByAccount"}

\* C23: no step of a calculatePipelineHealth or calculateBulkPipelineHealth call,
\* succeeding or failing, changes the stored notes, transcripts and action items;
\* the operations the calls issue are the three per-account reads, for accounts of
\* the request; and when a request has been answered nothing of it is left: the
\* next call starts from the state the first one started from.
C23_CalculatorIsReadOnly ==
    /\ [][db' = db]_vars
    /\ [](\A i \in 1..Len(log) :
             /\ log[i].op \in AccountReads
             /\ \E k \in 1..Len(call.accountIds) : call.accountIds[k] = log[i].accountId)
    /\ [](pc = "idle" =>
             /\ call = NoCall /\ outcome = NoOutcome /\ log = <<>>
             /\ results = <<>> /\ idx = 0 /\ accountId = ""
             /\ Locals0)

\* a request has been served, time having passed during it, on data that holds an
\* account with records, and the server is idle again
C23_Witness ==
    /\ pc = "idle"
    /\ clock > 0
    /\ \E a \in AccountIds : db[a] = BusyAccount

\* C24: when the quality sub-score comes from the fallback, there is one transcript
\* of the account, with the latest creation time of all, whose text is both the
\* excerpt the oracle was asked about and the text the fallback scored, in
\* whatever order the transcripts were handed to the computation.
C24_FallbackScoresOracleTranscript ==
    (pc \in {"haveQuality", "resolved"} /\ oracle.path = "fallback") =>
      \E t \in Latest(db[accountId].transcripts) :
         /\ oracle.excerpt = Slice0(t.content, TRANSCRIPT_EXCERPT)
         /\ transcripts[1] = t
         /\ qualitySignal = ExpectedFallback(t.content)

\* the fallback has scored "10% by May", the latest transcript, which the data
\* held after an older one, and the oracle had been asked about that same text
C24_Witness ==
    /\ pc = "haveQuality"
    /\ oracle.path = "fallback"
    /\ Len(db[accountId].transcripts) = 2
    /\ db[accountId].transcripts[1].content = TextNone
    /\ db[accountId].transcripts[2].content = TextTwo
    /\ oracle.excerpt = TextTwo
    /\ qualitySignal = SCALE \div 2

\* lines 57-98 on the records of account id, the oracle call (if one is made)
\* settling with resp and the clock reading now: the value calculatePipelineHealth
\* computes for the account alone
HealthOf(id, resp, now) ==
    LET notes == getFrameworkNotesByAccount(id)
        ts == QualitySignalEntry(getTranscriptsByAccount(id)).sorted
        q == IF QualitySignalEntry(getTranscriptsByAccount(id)).await
             THEN QualityAfterOracle(resp, ts, notes).value
             ELSE 0
    IN PipelineHealthScore(id, calculateFrameworkCoverage(notes), q,
                           calculateRecency(ts, now),
                           calculateNBAProgress(db[id].nbas, now),
                           extractReadinessFlags(notes), now)

\* the result without its timestamp
Untimed(r) == [r EXCEPT !.lastUpdatedAt = 0]

Starts == SelectSeq(log, LAMBDA e : e.op = "getFrameworkNotesByAccount")

\* the operations in flight
InFlight == {i \in 1..Len(log) : log[i].result = "pending"}

\* C26: calculateBulkPipelineHealth takes the accounts one at a time in input
\* order: the k-th account started is the k-th of the list, the first read of the
\* account at position i+1 is issued only when the result of position i is in the
\* list, at most one operation is in flight and it belongs to the account whose
\* result comes next, and the results stand in input order.
C26_BulkStrictlySequential ==
    call.kind = "bulk" =>
      /\ Cardinality(InFlight) <= 1
      /\ Len(Starts) <= Len(results) + 1
      /\ Len(Starts) <= Len(call.accountIds)
      /\ \A k \in 1..Len(Starts) : Starts[k].accountId = call.accountIds[k]
      /\ \A i \in InFlight :
            /\ i = Len(log)
            /\ Len(results) < Len(call.accountIds)
            /\ log[i].accountId = call.accountIds[Len(results) + 1]
      /\ Len(results) <= Len(call.accountIds)
      /\ \A k \in 1..Len(results) : results[k].accountId = call.accountIds[k]

C26_Witness ==
    /\ call.kind = "bulk"
    /\ Len(call.accountIds) = 3
    /\ Len(results) = 2
    /\ pc = "getTranscripts"
    /\ log[Len(log)].accountId = call.accountIds[3]
    /\ call.accountIds[3] # call.accountIds[2]

\* the operation that line 49, 52, 55 or 180 issues directly after op has succeeded
Before(op) ==
    CASE op = "getTranscriptsByAccount" -> "getFrameworkNotesByAccount"
      [] op = "getNBAsByAccount" -> "getTranscriptsByAccount"
      [] op = "chat.completions.create" -> "getNBAsByAccount"
      [] OTHER -> "none"

\* C30: an execution of calculatePipelineHealth starts with the read of the notes;
\* the read of the transcripts directly follows the successful read of the notes,
\* the read of the action items the successful read of the transcripts, and the
\* oracle call the successful read of the action items, all for the same account;
\* an operation is issued only when the one before it has settled; and after a
\* failed read the execution issues nothing more: what follows, if anything, is the
\* first read of the next account of a bulk run.
C30_ReadsInOrderThenOracle ==
    \A i \in 1..Len(log) :
       /\ log[i].op \in AccountReads \cup {"chat.completions.create"}
       /\ log[i].op = "getFrameworkNotesByAccount" =>
             (i = 1 \/ call.kind \in {"bulk", "dashboard"})
       /\ log[i].op # "getFrameworkNotesByAccount" =>
             /\ i > 1
             /\ log[i - 1] = LogEntry(Before(log[i].op), log[i].accountId, "ok")
       /\ log[i].result = "pending" => i = Len(log)
       /\ (log[i].op \in AccountReads /\ log[i].result \notin {"ok", "pending"} /\ i < Len(log)) =>
             /\ call.kind \in {"bulk", "dashboard"}
             /\ log[i + 1].op = "getFrameworkNotesByAccount"

C30_Witness ==
    /\ call.kind = "single"
    /\ pc = "rejected"
    /\ log = <<LogEntry("getFrameworkNotesByAccount", accountId, "ok"),
               LogEntry("getTranscriptsByAccount", accountId, "io")>>

\* the stored notes of the account for framework f
StoredOf(f) ==
    {db[accountId].notes[i] : i \in {j \in 1..Len(db[accountId].notes) :
                                       db[accountId].notes[j].framework = f}}

\* C28: when an account has several notes of one framework, the coverage and the
\* flags are computed from the first note of that framework in the fetched list
\* (the other notes of the framework count for nothing), that note is the most
\* recently created of the stored notes of the framework, and the flags report the
\* fields of the very MEDDPICC note that the coverage counts.
C28_FirstFetchedNoteDecides ==
    /\ pc \in {"notes", "covered", "flagged"} =>
         \A f \in Present :
            /\ NoteOf(f) \in StoredOf(f)
            /\ \A n \in StoredOf(f) : n.createdAt <= NoteOf(f).createdAt
    /\ pc \in {"covered", "flagged"} => IsCoverageUnder(frameworkCoverage, SentinelKnown)
    /\ pc = "flagged" =>
         /\ FlagsUnder(outcome.value, SentinelKnown)
         /\ (Present = {"MEDDPICC"} /\ KnownCount("MEDDPICC", SentinelKnown) = 0) =>
               (frameworkCoverage = 0 /\ \A k \in DOMAIN FlagFields : outcome.value[k] # JsTrue)
         /\ (Present = {"MEDDPICC"} /\ KnownCount("MEDDPICC", SentinelKnown) = 3) =>
               (frameworkCoverage = (3 * SCALE) \div 8 /\ outcome.value.economicBuyer = JsTrue)

\* an account whose older MEDDPICC note (stored first) knows nothing and whose newer
\* one knows three fields: coverage 3/8, flags of the newer note
C28_Witness ==
    /\ pc = "flagged"
    /\ Len(db[accountId].notes) = 3
    /\ db[accountId].notes[1].framework = "MEDDPICC"
    /\ db[accountId].notes[1].createdAt < db[accountId].notes[3].createdAt
    /\ Cardinality(StoredOf("MEDDPICC")) = 2
    /\ NoteOf("MEDDPICC") = db[accountId].notes[3]
    /\ frameworkCoverage = (3 * SCALE) \div 8
    /\ outcome.value.economicBuyer = JsTrue
    /\ outcome.value.champion # JsTrue

\* the fetched notes without those of frameworks that carry no weight
WeightedNotes == SelectSeq(frameworkNotes, LAMBDA n : n.framework \in WeightedFrameworks)

\* C29: notes of a framework without a weight (LicenseDemandPlan) do not change
\* the coverage: it is the coverage of the account's other notes alone, wherever
\* the unweighted notes stand in the list, and an account that has only such notes
\* has coverage 0.
C29_UnweightedNotesDoNotCount ==
    pc \in {"covered", "flagged"} =>
      /\ frameworkCoverage = calculateFrameworkCoverage(WeightedNotes)
      /\ IsCoverageUnder(frameworkCoverage, SentinelKnown)
      /\ (Len(frameworkNotes) > 0 /\ Len(WeightedNotes) = 0) => frameworkCoverage = 0

\* the coverage of an account that has two notes, both of LicenseDemandPlan
C29_Witness ==
    /\ pc = "covered"
    /\ Len(frameworkNotes) = 2
    /\ \A i \in 1..Len(frameworkNotes) : frameworkNotes[i].framework = "LicenseDemandPlan"
    /\ frameworkCoverage = 0

\* the sum of the scores of the first k results
RECURSIVE ScoreSum(_)
ScoreSum(k) == IF k = 0 THEN 0 ELSE ScoreSum(k - 1) + results[k].score

\* the text of a percentage between 0 and 100
PercentText(a) ==
    (IF a = 100 THEN <<"1", "0", "0">>
     ELSE IF a >= 10 THEN <<DigitChars[(a \div 10) + 1], DigitChars[(a % 10) + 1]>>
     ELSE <<DigitChars[a + 1]>>) \o <<"%">>

\* C27: a dashboard request is answered with an error only when one of its own
\* three reads failed, before any account was computed; failures of account
\* computations never fail it. Its pipelineHealth is the rounded quotient of the
\* sum of the bulk scores by the number of the user's accounts, every failed
\* account counting with score 0; and for a user without accounts it is 0 and
\* no account is computed.
C27_DashboardSurvivesAccountFailures ==
    (call.kind = "dashboard" /\ pc = "answered") =>
      /\ outcome.status \in {"resolved", "rejected"}
      /\ outcome.status = "rejected" => (log = <<>> /\ results = <<>>)
      /\ outcome.status = "resolved" =>
           LET n == Len(call.accountIds)
               stats == outcome.value
           IN /\ stats.activeAccounts = n
              /\ n = 0 => /\ stats.pipelineHealth = <<"0", "%">>
                          /\ log = <<>>
                          /\ results = <<>>
              /\ n > 0 =>
                   /\ Len(results) = n
                   /\ \A i \in 1..n : results[i].accountId = call.accountIds[i]
                   /\ \A i \in 1..n :
                         (\E k \in 1..Len(Failures) : Failures[k].accountId = results[i].accountId)
                            => results[i].score = 0
                   /\ \E a \in 0..100 :
                         /\ stats.pipelineHealth = PercentText(a)
                         /\ 2 * a * n - n <= 2 * ScoreSum(n)
                         /\ 2 * ScoreSum(n) < 2 * a * n + n

\* a dashboard answered for a user with two accounts, one of whose computations
\* failed on a read and the other on line 55
C27_Witness ==
    /\ call.kind = "dashboard"
    /\ pc = "answered"
    /\ outcome.status = "resolved"
    /\ Len(call.accountIds) = 2
    /\ \E k \in 1..Len(Failures) : Failures[k].result = "io"
    /\ \E k \in 1..Len(Failures) : Failures[k].result = "not a function"
    /\ outcome.value.pipelineHealth = <<"0", "%">>
    /\ outcome.value.pipelineValue = <<"$", "0", ".", "2", "M">>

====
